---- MODULE Spec2Model ----
(***************************************************************************)
(* Model of PrepareMF4.py: the loop of main() that parses the lines of a   *)
(* Nexiq CAN sniffer log, decodes the J1939 frame held in the 19 data      *)
(* bytes, builds the extended CAN identifier, looks the PGN up in the      *)
(* label table and accumulates one row per frame in the dataframe df,      *)
(* which is then written out as a CSV table.                               *)
(*                                                                         *)
(* Text is modelled as sequences of one-character strings.  A dataframe    *)
(* cell is <<>> when it was never assigned (pandas' NaN) and <<v>> when it *)
(* holds v.  A log line is a record: ts, id, ret, sz and blk are the       *)
(* groups the header regular expressions capture (<<>> when the pattern    *)
(* does not occur in the line) and data is <<>> when the line holds no     *)
(* "Data:" marker, and otherwise <<t>> with t the characters that follow   *)
(* the marker up to and including the end of the line.                     *)
(***************************************************************************)
EXTENDS Integers, Sequences, FiniteSets, TLC

VARIABLES lines, pgn_df, pos, i, df, pc, csv

vars == <<lines, pgn_df, pos, i, df, pc, csv>>

----------------------------------------------------------------------------
(* Bounds of the model.                                                    *)

MaxLines == 3
MaxExtra == 1
Edge == 1
MaxTable == 2

----------------------------------------------------------------------------
(* Characters and numbers.                                                 *)

HexChars == <<"0", "1", "2", "3", "4", "5", "6", "7",
              "8", "9", "A", "B", "C", "D", "E", "F">>

HexSet == {HexChars[k] : k \in 1..16}

IsHex(c) == c \in HexSet

DigitVal(c) == CHOOSE k \in 0..15 : HexChars[k + 1] = c

Min(a, b) == IF a < b THEN a ELSE b

RECURSIVE Pow2(_)
Pow2(n) == IF n = 0 THEN 1 ELSE 2 * Pow2(n - 1)

\* Python's s[a:b] for 0 <= a <= b: the slice is clipped to the string.
Slice(s, a, b) ==
    IF a >= Min(b, Len(s)) THEN <<>> ELSE SubSeq(s, a + 1, Min(b, Len(s)))

\* int(hexStr, 16)
RECURSIVE IntOfHex(_)
IntOfHex(h) ==
    IF h = <<>> THEN 0
    ELSE 16 * IntOfHex(SubSeq(h, 1, Len(h) - 1)) + DigitVal(h[Len(h)])

\* bin(v)[2:]
RECURSIVE Bin(_)
Bin(v) ==
    IF v < 2 THEN <<IF v = 1 THEN "1" ELSE "0">>
    ELSE Bin(v \div 2) \o <<IF v % 2 = 1 THEN "1" ELSE "0">>

\* str.zfill(numBits): pads on the left, never truncates.
RECURSIVE ZFill(_, _)
ZFill(s, n) == IF Len(s) >= n THEN s ELSE ZFill(<<"0">> \o s, n)

hexStr2binStr_NoPad(hexStr, numBits) == Bin(IntOfHex(hexStr))

hexStr2binStr(hexStr, numBits) == ZFill(Bin(IntOfHex(hexStr)), numBits)

RECURSIVE StripZeros(_)
StripZeros(b) ==
    IF b # <<>> /\ b[1] = "0" THEN StripZeros(Tail(b)) ELSE b

NibbleVal(b) ==
    (IF b[1] = "1" THEN 8 ELSE 0) + (IF b[2] = "1" THEN 4 ELSE 0)
    + (IF b[3] = "1" THEN 2 ELSE 0) + (IF b[4] = "1" THEN 1 ELSE 0)

RECURSIVE NibblesToHex(_)
NibblesToHex(b) ==
    IF b = <<>> THEN <<>>
    ELSE <<HexChars[NibbleVal(SubSeq(b, 1, 4)) + 1]>>
         \o NibblesToHex(SubSeq(b, 5, Len(b)))

\* "{0:X}".format(int(binStr, 2)): the hexadecimal digits of the number the
\* bit string denotes, without leading zeros ("0" for zero).  Computed on the
\* digits, so that identifiers wider than 31 bits are represented exactly.
HexOfBin(binStr) ==
    LET s == StripZeros(binStr)
        p == ZFill(s, 4 * ((Len(s) + 3) \div 4))
    IN  IF s = <<>> THEN <<"0">> ELSE NibblesToHex(p)

\* "{0:0>4X}".format(int(binStr, 2)): right-aligned in a field of 4, filled
\* with "0".
binStr2HexStr(binStr) == ZFill(HexOfBin(binStr), 4)

\* bytes.fromhex(h), as the sequence of byte values
RECURSIVE BytesFromHex(_)
BytesFromHex(h) ==
    IF Len(h) < 2 THEN <<>>
    ELSE <<16 * DigitVal(h[1]) + DigitVal(h[2])>>
         \o BytesFromHex(SubSeq(h, 3, Len(h)))

----------------------------------------------------------------------------
(* The dataframe.                                                          *)

Columns == {"Original", "LogTimestamp", "LogID", "Ret", "Sz", "Blk",
            "LogDataBytes", "timestamps", "echoByte", "PGN", "Priority",
            "Source", "Destination", "DataBytes", "DataLength", "ID",
            "BusChannel", "IDE", "DLC", "Dir", "EDL", "BRS",
            "PgnLabel", "PgnInDbc"}

NaN == <<>>

EmptyRow == [c \in Columns |-> NaN]

\* df.at[r, col] = v, r counted from 0: sets the cell, and first adds row r,
\* all NaN, when the frame has no such row yet.
At(d, r, col, v) ==
    IF r < Len(d)
    THEN [d EXCEPT ![r + 1][col] = <<v>>]
    ELSE Append(d, [EmptyRow EXCEPT ![col] = <<v>>])

\* A run of assignments df.at[r, col] = v, in order; steps is a sequence of
\* <<col, v>> pairs.
RECURSIVE AtAll(_, _, _)
AtAll(d, r, steps) ==
    IF steps = <<>> THEN d
    ELSE AtAll(At(d, r, steps[1][1], steps[1][2]), r, Tail(steps))

----------------------------------------------------------------------------
(* Parsing one log line (LogLineParser).                                   *)

IsSpace(c) == c = " " \/ c = "\n"

RECURSIVE RStrip(_)
RStrip(t) ==
    IF t # <<>> /\ IsSpace(t[Len(t)]) THEN RStrip(SubSeq(t, 1, Len(t) - 1))
    ELSE t

\* line.strip(): the header starts with the timestamp, so only the end of the
\* line carries whitespace to remove.
Strip(line) ==
    IF line.data = <<>> THEN line
    ELSE [line EXCEPT !.data = <<RStrip(line.data[1])>>]

\* "Data:" in line
HasMarker(line) == line.data # <<>>

\* The end of the longest run of the characters [0-9A-F ] of t that starts
\* at position k.
RECURSIVE HexRunEnd(_, _)
HexRunEnd(t, k) ==
    IF k <= Len(t) /\ (IsHex(t[k]) \/ t[k] = " ") THEN HexRunEnd(t, k + 1)
    ELSE k - 1

\* "Data: " occurs in the line: the marker with one space right after it.
DataMatches(line) == line.data[1] # <<>> /\ line.data[1][1] = " "

\* re.search("Data: ([0-9A-F ]*)", line): <<>> for None, else <<group(1)>>.
DataMatch(line) ==
    IF DataMatches(line)
    THEN <<SubSeq(line.data[1], 2, HexRunEnd(line.data[1], 2))>>
    ELSE <<>>

\* The non-overlapping matches of a space followed by two hexadecimal
\* digits, found from left to right from position k of s.
RECURSIVE CountFrom(_, _)
CountFrom(s, k) ==
    IF k + 2 > Len(s) THEN 0
    ELSE IF s[k] = " " /\ IsHex(s[k + 1]) /\ IsHex(s[k + 2])
         THEN 1 + CountFrom(s, k + 3)
         ELSE CountFrom(s, k + 1)

\* len(re.findall("( [0-9A-F]{2})", s))
CountGroups(s) == CountFrom(s, 1)

\* s.replace(" ", "")
RemoveSpaces(s) == SelectSeq(s, LAMBDA c : c # " ")

\* The assignments of lines 49-80 in order, each <<column, match>>, where the
\* match is <<>> when re.search returns None (and .group then raises).  The
\* optional Blk is assigned only when it matched.
ParseSteps(line) ==
    << <<"Original", <<Strip(line)>> >>,
       <<"LogTimestamp", line.ts>>,
       <<"LogID", line.id>>,
       <<"Ret", line.ret>>,
       <<"Sz", line.sz>> >>
    \o (IF line.blk # <<>> THEN << <<"Blk", line.blk>> >> ELSE <<>>)
    \o << <<"LogDataBytes",
            IF DataMatch(line) = <<>> THEN <<>>
            ELSE <<RemoveSpaces(DataMatch(line)[1])>> >> >>

\* Some required pattern of the line does not match: main() raises.
Raises(line) ==
    \/ line.ts = <<>> \/ line.id = <<>> \/ line.ret = <<>> \/ line.sz = <<>>
    \/ ~DataMatches(line)

\* The assignments done before the first failing match.
RECURSIVE Done(_)
Done(steps) ==
    IF steps = <<>> \/ steps[1][2] = <<>> THEN <<>>
    ELSE << <<steps[1][1], steps[1][2][1]>> >> \o Done(Tail(steps))

\* dataLength of line 78
dataLength(line) == CountGroups(DataMatch(line)[1])

\* dataBytes_hex of line 79
dataBytes(line) == RemoveSpaces(DataMatch(line)[1])

MinDataLength == 19

----------------------------------------------------------------------------
(* Decoding the frame (FrameDecoder), building the identifier (IdBuilder)  *)
(* and the label lookup (PgnAnnotator).                                    *)

PgnHex_NoReverse(h) == Slice(h, 10, 12) \o Slice(h, 12, 14) \o Slice(h, 14, 16)

\* pgn_hex: the three bytes at 5-7, in reverse order.
PgnHex(h) == Slice(h, 14, 16) \o Slice(h, 12, 14) \o Slice(h, 10, 12)

\* The identifier column: priority (3 bits), PGN (18 bits) and source
\* (8 bits) as binary strings, concatenated and written in hexadecimal.
BuildId(priority_hex, pgn_hex, source_hex) ==
    binStr2HexStr(hexStr2binStr(priority_hex, 3)
                  \o hexStr2binStr(pgn_hex, 18)
                  \o hexStr2binStr(source_hex, 8))

\* The assignments of lines 91-130 for the hex string h of the data bytes.
FrameSteps(h) ==
    << <<"timestamps", BytesFromHex(Slice(h, 0, 8))>>,
       <<"echoByte", Slice(h, 8, 10)>>,
       <<"PGN", PgnHex(h)>>,
       <<"Priority", Slice(h, 16, 18)>>,
       <<"Source", Slice(h, 18, 20)>>,
       <<"Destination", Slice(h, 20, 22)>>,
       <<"DataBytes", Slice(h, 22, 38)>>,
       <<"DataLength", Len(Slice(h, 22, 38)) \div 2>>,
       <<"ID", BuildId(Slice(h, 16, 18), PgnHex(h), Slice(h, 18, 20))>>,
       <<"BusChannel", 1>>, <<"IDE", 1>>, <<"DLC", 1>>,
       <<"Dir", 1>>, <<"EDL", 1>>, <<"BRS", 1>> >>

\* pgn_df[pgn_df["PGN"] == pgn_dec]: the rows of the table with that PGN,
\* in table order.
PgnRows(table, pgn_dec) == SelectSeq(table, LAMBDA e : e.PGN = pgn_dec)

LookupSteps_Last(table, pgn_hex) ==
    LET rows == PgnRows(table, IntOfHex(pgn_hex))
    IN  IF rows = <<>> THEN <<>>
        ELSE << <<"PgnLabel", rows[Len(rows)].label>>,
                <<"PgnInDbc", rows[Len(rows)].inDbc>> >>

\* The assignments of lines 135-140: none when no row matches, else the
\* label and the flag of the first matching row.
LookupSteps(table, pgn_hex) ==
    LET rows == PgnRows(table, IntOfHex(pgn_hex))
    IN  IF rows = <<>> THEN <<>>
        ELSE << <<"PgnLabel", rows[1].label>>,
                <<"PgnInDbc", rows[1].inDbc>> >>

----------------------------------------------------------------------------
(* One iteration of the loop of main(), by the way it ends.                *)

ThisLine == lines[pos]

InLoop == pc = "loop" /\ pos <= Len(lines)

\* Line 47: the line holds no "Data:" marker.
SkipNoData ==
    /\ InLoop
    /\ ~HasMarker(ThisLine)
    /\ pos' = pos + 1
    /\ UNCHANGED <<lines, pgn_df, i, df, pc, csv>>

\* Lines 49-77: a re.search returns None and .group(1) raises AttributeError.
\* Nothing catches it: main() ends there, before the table is written.
ParseFail ==
    /\ InLoop
    /\ HasMarker(ThisLine)
    /\ Raises(ThisLine)
    /\ df' = AtAll(df, i, Done(ParseSteps(ThisLine)))
    /\ pc' = "crashed"
    /\ UNCHANGED <<lines, pgn_df, pos, i, csv>>

\* Lines 49-82: the line parses and holds fewer than 19 groups.  Row i keeps
\* what was assigned and i does not advance.
DropShort ==
    /\ InLoop
    /\ HasMarker(ThisLine)
    /\ ~Raises(ThisLine)
    /\ dataLength(ThisLine) < MinDataLength
    /\ df' = AtAll(df, i, Done(ParseSteps(ThisLine)))
    /\ pos' = pos + 1
    /\ UNCHANGED <<lines, pgn_df, i, pc, csv>>

\* Everything lines 49-140 assign to row r of d for a line that is kept.
ProcessLine(d, r, line, table) ==
    LET h == dataBytes(line)
    IN  AtAll(AtAll(AtAll(d, r, Done(ParseSteps(line))), r, FrameSteps(h)),
              r, LookupSteps(table, PgnHex(h)))

\* Lines 49-144: the line parses and holds at least 19 groups.
Accept ==
    /\ InLoop
    /\ HasMarker(ThisLine)
    /\ ~Raises(ThisLine)
    /\ dataLength(ThisLine) >= MinDataLength
    /\ df' = ProcessLine(df, i, ThisLine, pgn_df)
    /\ i' = i + 1
    /\ pos' = pos + 1
    /\ UNCHANGED <<lines, pgn_df, pc, csv>>

\* Lines 155-158: after the last line, the whole dataframe goes to the CSV.
ExportCsv ==
    /\ pc = "loop"
    /\ pos > Len(lines)
    /\ csv' = df
    /\ pc' = "done"
    /\ UNCHANGED <<lines, pgn_df, pos, i, df>>

----------------------------------------------------------------------------
(* Inputs: log lines in the sniffer's format and PGN label tables.         *)

\* A byte as the log writes it: two upper-case hexadecimal digits.
HexByte(b) == <<HexChars[(b \div 16) + 1], HexChars[(b % 16) + 1]>>

RECURSIVE Spaces(_)
Spaces(n) == IF n = 0 THEN <<>> ELSE <<" ">> \o Spaces(n - 1)

\* The text after "Data:": lead spaces, then the bytes in groups of `per`
\* bytes, one space between groups, then the end of the line.
RECURSIVE Groups(_, _)
Groups(bytes, per) ==
    IF bytes = <<>> THEN <<>>
    ELSE LET n == Min(per, Len(bytes))
             RECURSIVE Cat(_)
             Cat(k) == IF k > n THEN <<>> ELSE HexByte(bytes[k]) \o Cat(k + 1)
         IN  Cat(1)
             \o (IF Len(bytes) > n THEN <<" ">> ELSE <<>>)
             \o Groups(SubSeq(bytes, n + 1, Len(bytes)), per)

DataText(lead, bytes, per) == Spaces(lead) \o Groups(bytes, per) \o <<"\n">>

\* The header of the example line of the log format (line 59).
LogLine(blk, data) ==
    [ts |-> <<"000001.226604">>, id |-> <<"00">>, ret |-> <<"0019">>,
     sz |-> <<"02048">>, blk |-> blk, data |-> data]

\* The 19 data bytes of the example line.
ExampleBlob == <<0, 17, 238, 176, 0, 32, 255, 0, 3, 0, 255,
                 16, 33, 0, 0, 0, 255, 208, 255>>

\* Another frame: PGN 0x00FEF1, priority 6, source 0x21.
OtherBlob == <<0, 17, 238, 177, 1, 241, 254, 0, 6, 33, 255,
               1, 2, 3, 4, 5, 6, 7, 8>>

\* n bytes: the first n of the blob, or the blob and bytes that follow it.
RECURSIVE Extend(_, _)
Extend(blob, n) ==
    IF n <= Len(blob) THEN SubSeq(blob, 1, n)
    ELSE Extend(Append(blob, 160 + Len(blob)), n)

BlkValues == {<<>>, <<"1">>}

\* A line without the marker, e.g. a comment line of the log.
NoDataLine == LogLine(<<>>, <<>>)

\* Lines with the marker in which one required pattern does not occur.
MissingFieldLines ==
    LET ok == LogLine(<<"1">>, <<DataText(2, ExampleBlob, 1)>>)
    IN  {[ok EXCEPT !.ts = <<>>], [ok EXCEPT !.id = <<>>],
         [ok EXCEPT !.ret = <<>>], [ok EXCEPT !.sz = <<>>]}

\* Lines with a complete header: one or two spaces after the marker and 18
\* to 19 + MaxExtra groups of one byte; 18 bytes written in groups of two;
\* and no space at all after the marker.
DataLines ==
    {LogLine(b, <<DataText(lead, Extend(ExampleBlob, n), 1)>>) :
        b \in BlkValues, lead \in 1..2, n \in 18..(19 + MaxExtra)}
    \cup {LogLine(<<>>, <<DataText(2, OtherBlob, 1)>>),
          LogLine(<<"1">>, <<DataText(2, Extend(ExampleBlob, 18), 2)>>),
          LogLine(<<>>, <<DataText(0, ExampleBlob, 1)>>)}

LogLines == {NoDataLine} \cup MissingFieldLines \cup DataLines

SeqsUpTo(S, n) == UNION {[1..k -> S] : k \in 0..n}

\* Rows of "PGN list.csv": PGN; PGN label; In CSS electronics' DBC?
TableRows ==
    {[PGN |-> 65312, label |-> "Label A", inDbc |-> "Yes"],
     [PGN |-> 65312, label |-> "Label B", inDbc |-> "No"],
     [PGN |-> 65265, label |-> "Label C", inDbc |-> "Yes"]}

ExampleTable ==
    <<[PGN |-> 65265, label |-> "Label C", inDbc |-> "Yes"],
      [PGN |-> 65312, label |-> "Label A", inDbc |-> "Yes"]>>

----------------------------------------------------------------------------
(* The run of main() over a log of up to MaxLines lines.                   *)

Start ==
    /\ pos = 1
    /\ i = 0
    /\ df = <<>>
    /\ pc = "loop"
    /\ csv = <<>>

Init ==
    /\ lines \in SeqsUpTo(LogLines, MaxLines)
    /\ pgn_df = ExampleTable
    /\ Start

Next == SkipNoData \/ ParseFail \/ DropShort \/ Accept \/ ExportCsv

Spec == Init /\ [][Next]_vars

----------------------------------------------------------------------------
(* The run of main() over a log of one well-formed line, for frames whose  *)
(* bytes range over the values at the edges of each field.                 *)

EdgeBytes == (0..Edge) \cup ((255 - Edge)..255)

\* Echo byte, destination and payload.
FrameRests ==
    {<<0, 255, <<16, 33, 0, 0, 0, 255, 208, 255>> >>,
     <<1, 0, <<1, 2, 3, 4, 5, 6, 7, 8>> >>}

FrameBlobs ==
    {<<0, 17, 238, 176, rest[1], b5, b6, b7, prio, src, rest[2]>> \o rest[3] :
        rest \in FrameRests,
        b5 \in {0, 32, 241}, b6 \in {0, 254, 255},
        b7 \in (0..(3 + Edge)) \cup ((256 - Edge)..255),
        prio \in (0..(7 + Edge)) \cup ((256 - Edge)..255),
        src \in EdgeBytes \cup {33}}

FrameLines ==
    {LogLine(<<"1">>, <<DataText(2, Extend(blob, 19 + extra), 1)>>) :
        blob \in FrameBlobs, extra \in 0..MaxExtra}

InitFrame ==
    /\ lines \in {<<l>> : l \in FrameLines}
    /\ pgn_df = ExampleTable
    /\ Start

NextFrame == Accept \/ ExportCsv

SpecFrame == InitFrame /\ [][NextFrame]_vars

----------------------------------------------------------------------------
(* The run of main() over frames of three PGNs and a short line, for every *)
(* label table of up to MaxTable rows.                                     *)

\* A frame whose PGN, 0x00F004, no row of TableRows holds.
UnlistedBlob == <<0, 17, 238, 178, 0, 4, 240, 0, 3, 0, 255,
                  8, 7, 6, 5, 4, 3, 2, 1>>

PgnLines ==
    {LogLine(<<"1">>, <<DataText(2, ExampleBlob, 1)>>),
     LogLine(<<>>, <<DataText(2, OtherBlob, 1)>>),
     LogLine(<<>>, <<DataText(2, UnlistedBlob, 1)>>),
     LogLine(<<"1">>, <<DataText(2, Extend(ExampleBlob, 18), 1)>>)}

InitPgn ==
    /\ lines \in SeqsUpTo(PgnLines, MaxLines)
    /\ pgn_df \in SeqsUpTo(TableRows, MaxTable)
    /\ Start

NextPgn == DropShort \/ Accept \/ ExportCsv

SpecPgn == InitPgn /\ [][NextPgn]_vars

----------------------------------------------------------------------------
(* What the properties below speak of.                                     *)

Rows == 1..Len(csv)

Emitted == pc = "done"

\* The columns of a LogEntry, a DecodedFrame and the identifier; Blk and the
\* two label columns are optional.
RequiredColumns == Columns \ {"Blk", "PgnLabel", "PgnInDbc"}

RowComplete(row) == \A c \in RequiredColumns : row[c] # NaN

\* The row stems from the line: it holds the line's text.
RowOf(row, line) == row.Original = <<Strip(line)>>

\* The line has the marker, all required fields, and the loop keeps it.
Kept(line) ==
    HasMarker(line) /\ ~Raises(line) /\ dataLength(line) >= MinDataLength

\* The line has the marker and lacks the timestamp prefix, ID, Ret or Sz.
MissingField(line) ==
    /\ HasMarker(line)
    /\ line.ts = <<>> \/ line.id = <<>> \/ line.ret = <<>> \/ line.sz = <<>>

\* The bytes the text after the marker holds: its hexadecimal digits, two
\* to a byte.
PayloadByteCount(line) ==
    Cardinality({k \in 1..Len(line.data[1]) : IsHex(line.data[1][k])}) \div 2

\* The text after the marker read as the format describes it: whitespace,
\* then groups of exactly two hexadecimal digits with whitespace between.
TokenStarts(t) ==
    {k \in 1..Len(t) : ~IsSpace(t[k]) /\ (k = 1 \/ IsSpace(t[k - 1]))}

TwoHexAt(t, k) ==
    /\ k + 2 <= Len(t)
    /\ IsHex(t[k]) /\ IsHex(t[k + 1]) /\ IsSpace(t[k + 2])

RECURSIVE TokenBytesFrom(_, _)
TokenBytesFrom(t, k) ==
    IF k + 1 > Len(t) THEN <<>>
    ELSE IF IsSpace(t[k]) THEN TokenBytesFrom(t, k + 1)
         ELSE <<16 * DigitVal(t[k]) + DigitVal(t[k + 1])>>
              \o TokenBytesFrom(t, k + 2)

TokenBytes(line) == TokenBytesFrom(line.data[1], 1)

WellFormed(line) ==
    /\ HasMarker(line)
    /\ line.ts # <<>> /\ line.id # <<>> /\ line.ret # <<>> /\ line.sz # <<>>
    /\ line.data[1] # <<>> /\ line.data[1][1] = " "
    /\ \A k \in TokenStarts(line.data[1]) : TwoHexAt(line.data[1], k)
    /\ Cardinality(TokenStarts(line.data[1])) >= 19

RECURSIVE HexOfBytes(_)
HexOfBytes(b) ==
    IF b = <<>> THEN <<>> ELSE HexByte(b[1]) \o HexOfBytes(Tail(b))

\* The row's frame columns are those of the 19-byte blob b (b[1] is byte 0).
DecodedFrom(row, b) ==
    /\ row.timestamps = <<SubSeq(b, 1, 4)>>
    /\ row.echoByte = <<HexByte(b[5])>>
    /\ row.PGN # NaN
    /\ Len(row.PGN[1]) = 6
    /\ IntOfHex(row.PGN[1]) = b[8] * 65536 + b[7] * 256 + b[6]
    /\ row.Priority = <<HexByte(b[9])>>
    /\ row.Source = <<HexByte(b[10])>>
    /\ row.Destination = <<HexByte(b[11])>>
    /\ row.DataBytes = <<HexOfBytes(SubSeq(b, 12, 19))>>

\* The identifier of the row as bits, most significant first.
RECURSIVE HexToBits(_)
HexToBits(h) ==
    IF h = <<>> THEN <<>>
    ELSE ZFill(Bin(DigitVal(h[1])), 4) \o HexToBits(Tail(h))

IdBits(row) == HexToBits(row.ID[1])

BitAt(bits, p) == IF p < Len(bits) /\ bits[Len(bits) - p] = "1" THEN 1 ELSE 0

\* (id >> lo) & (2^w - 1)
RECURSIVE BitField(_, _, _)
BitField(bits, lo, w) ==
    IF w = 0 THEN 0 ELSE BitAt(bits, lo) + 2 * BitField(bits, lo + 1, w - 1)

\* id < 2^n
Below(bits, n) == \A p \in n..(Len(bits) - 1) : BitAt(bits, p) = 0

PriorityOf(row) == IntOfHex(row.Priority[1])

PgnOf(row) == IntOfHex(row.PGN[1])

SourceOf(row) == IntOfHex(row.Source[1])

DestinationOf(row) == IntOfHex(row.Destination[1])

----------------------------------------------------------------------------
(* Properties of the run over a log (Spec).                                *)

\* C1: every row of the emitted table is complete: it has all its LogEntry,
\* DecodedFrame and identifier columns set, so a dropped line leaves no row.
C1_EveryEmittedRowComplete ==
    Emitted => \A k \in Rows : RowComplete(csv[k])

\* C2: a line with the marker and a missing required field fails alone: the
\* run goes on and, when it has ended, the record of every line that is kept
\* is in the emitted table.
C2_MissingFieldFailsLineOnly ==
    (/\ pc \in {"done", "crashed"}
     /\ \E j \in 1..Len(lines) : MissingField(lines[j])
     /\ \A j \in 1..Len(lines) :
            HasMarker(lines[j]) => DataMatches(lines[j]))
    => \A j \in 1..Len(lines) :
           Kept(lines[j])
           => \E k \in Rows : RowOf(csv[k], lines[j]) /\ RowComplete(csv[k])

\* The record main() builds for the line on its own, from an empty dataframe.
RecordAlone(line) == ProcessLine(<<>>, 0, line, pgn_df)[1]

\* C3: the record emitted for a kept line is the record the line gives on
\* its own, whatever lines preceded it; without a Blk field its Blk is unset.
C3_RecordIndependentOfHistory ==
    Emitted =>
        \A k \in Rows : \A j \in 1..Len(lines) :
            (RowOf(csv[k], lines[j]) /\ Kept(lines[j]))
            => /\ csv[k] = RecordAlone(lines[j])
               /\ (lines[j].blk = <<>> => csv[k].Blk = NaN)

\* C6: a line whose payload holds fewer than 19 bytes has no row in the
\* emitted table, however its digits are laid out.
C6_ShortPayloadYieldsNoRecord ==
    Emitted =>
        \A k \in Rows : \A j \in 1..Len(lines) :
            (RowOf(csv[k], lines[j]) /\ DataMatches(lines[j]))
            => PayloadByteCount(lines[j]) >= 19

\* The gate alone: a row whose frame columns were assigned stems from a line
\* whose payload holds at least 19 bytes.
ShortPayloadNeverDecoded ==
    \A k \in 1..Len(df) : \A j \in 1..Len(lines) :
        (RowOf(df[k], lines[j]) /\ DataMatches(lines[j])
         /\ PayloadByteCount(lines[j]) < 19)
        => \A c \in RequiredColumns \ {"Original", "LogTimestamp", "LogID",
                                        "Ret", "Sz", "LogDataBytes"} :
               df[k][c] = NaN

\* C7: a line with all required fields and at least 19 two-digit groups
\* after "Data: " gives exactly one record, decoded from its first 19 groups.
C7_WellFormedLineAccepted ==
    Emitted =>
        \A j \in 1..Len(lines) :
            WellFormed(lines[j])
            => /\ Cardinality({k \in Rows : RowOf(csv[k], lines[j])})
                  = Cardinality({m \in 1..Len(lines) : lines[m] = lines[j]})
               /\ \A k \in Rows :
                      RowOf(csv[k], lines[j])
                      => /\ RowComplete(csv[k])
                         /\ DecodedFrom(csv[k],
                                        SubSeq(TokenBytes(lines[j]), 1, 19))

----------------------------------------------------------------------------
(* Properties of the frame decoder and the identifier (SpecFrame).         *)

\* C4: for priority in 0..7, PGN below 2^18 and source in 0..255 the
\* identifier gives them back: (id >> 26) & 7 is the priority, (id >> 8) &
\* 0x3FFFF the PGN, id & 0xFF the source, and id < 2^29.
C4_IdRoundTrip ==
    Emitted =>
        \A k \in Rows :
            (PriorityOf(csv[k]) <= 7 /\ PgnOf(csv[k]) < Pow2(18)
             /\ SourceOf(csv[k]) <= 255)
            => /\ BitField(IdBits(csv[k]), 26, 3) = PriorityOf(csv[k])
               /\ BitField(IdBits(csv[k]), 8, 18) = PgnOf(csv[k])
               /\ BitField(IdBits(csv[k]), 0, 8) = SourceOf(csv[k])
               /\ Below(IdBits(csv[k]), 29)

C4_Witness ==
    /\ Emitted
    /\ \E k \in Rows :
           /\ PriorityOf(csv[k]) = 7
           /\ PgnOf(csv[k]) >= Pow2(17) /\ PgnOf(csv[k]) < Pow2(18)
           /\ SourceOf(csv[k]) = 255
           /\ csv[k].ID = <<BuildId(csv[k].Priority[1], csv[k].PGN[1],
                                    csv[k].Source[1])>>

\* C5: for every priority byte, 24-bit PGN and source byte the identifier is
\* (priority & 7) << 26 | (pgn & 0x3FFFF) << 8 | (source & 0xFF), below 2^29.
C5_IdMasksOutOfRange ==
    Emitted =>
        \A k \in Rows :
            /\ BitField(IdBits(csv[k]), 26, 3) = PriorityOf(csv[k]) % 8
            /\ BitField(IdBits(csv[k]), 8, 18) = PgnOf(csv[k]) % Pow2(18)
            /\ BitField(IdBits(csv[k]), 0, 8) = SourceOf(csv[k]) % 256
            /\ Below(IdBits(csv[k]), 29)

\* C8: echo is byte 4, the PGN is byte7 << 16 | byte6 << 8 | byte5, priority
\* is byte 8, source byte 9, destination byte 10 and the payload bytes 11-18;
\* the example blob gives priority 3, source 0, PGN 65312, destination 255
\* and the identifier 0x0CFF2000.
C8_ByteLayout ==
    Emitted =>
        \A k \in Rows : \A j \in 1..Len(lines) :
            RowOf(csv[k], lines[j])
            => LET b == SubSeq(TokenBytes(lines[j]), 1, 19)
               IN  /\ DecodedFrom(csv[k], b)
                   /\ b = ExampleBlob
                      => /\ PriorityOf(csv[k]) = 3
                         /\ SourceOf(csv[k]) = 0
                         /\ PgnOf(csv[k]) = 65312
                         /\ DestinationOf(csv[k]) = 255
                         /\ IntOfHex(csv[k].ID[1]) = 218046464

C8_Witness ==
    /\ Emitted
    /\ \E k \in Rows : \E j \in 1..Len(lines) :
           /\ RowOf(csv[k], lines[j])
           /\ SubSeq(TokenBytes(lines[j]), 1, 19) = ExampleBlob

\* C9: in every emitted record the PGN is in 0..2^18-1, the priority in
\* 0..7, source and destination in 0..255 and the payload 8 bytes long.
C9_DecodedFrameRanges ==
    Emitted =>
        \A k \in Rows :
            /\ PgnOf(csv[k]) < Pow2(18)
            /\ PriorityOf(csv[k]) <= 7
            /\ SourceOf(csv[k]) <= 255
            /\ DestinationOf(csv[k]) <= 255
            /\ csv[k].DataLength = <<8>>
            /\ Len(csv[k].DataBytes[1]) = 16

----------------------------------------------------------------------------
(* Properties of the label lookup (SpecPgn).                               *)

\* The rows of the table, by position, that hold the PGN.
Matches(pgn) == {e \in 1..Len(pgn_df) : pgn_df[e].PGN = pgn}

FirstOf(S) == CHOOSE e \in S : \A f \in S : e <= f

\* C10: a record's label and flag are those of the first row of the table
\* with the record's PGN; without such a row the record is emitted all the
\* same, with label and flag unset.
C10_FirstMatchOrUnset ==
    Emitted =>
        /\ Cardinality({k \in Rows : RowComplete(csv[k])})
           = Cardinality({j \in 1..Len(lines) : Kept(lines[j])})
        /\ \A k \in Rows :
               RowComplete(csv[k])
               => IF Matches(PgnOf(csv[k])) = {}
                  THEN csv[k].PgnLabel = NaN /\ csv[k].PgnInDbc = NaN
                  ELSE LET e == pgn_df[FirstOf(Matches(PgnOf(csv[k])))]
                       IN  /\ csv[k].PgnLabel = <<e.label>>
                           /\ csv[k].PgnInDbc = <<e.inDbc>>

C10_Witness ==
    /\ Emitted
    /\ \E k \in Rows :
           /\ RowComplete(csv[k])
           /\ Cardinality(Matches(PgnOf(csv[k]))) = 2
           /\ \E e, f \in Matches(PgnOf(csv[k])) :
                  pgn_df[e].label # pgn_df[f].label
    /\ \E k \in Rows : RowComplete(csv[k]) /\ Matches(PgnOf(csv[k])) = {}
    /\ \E j \in 1..Len(lines) : ~Kept(lines[j])

====
